---- MODULE Spec2Model ----
(***************************************************************************)
(* Landing-page publishing workflow of kash-pages: the route handlers for  *)
(* list / create / get / update / delete / publish-toggle, the Firestore   *)
(* adapter they call, the login route, the sitemap generator and the form  *)
(* validator with its slug functions, the admin dashboard and the client   *)
(* auth hook.  A request is a sequence of atomic steps, one per awaited    *)
(* store access; requests of different clients interleave between steps.   *)
(*                                                                         *)
(* Strings that the code inspects character by character (slug, form       *)
(* fields) are sequences of one-character strings.  Timestamps are         *)
(* positive naturals drawn from a logical clock, null is Null.             *)
(***************************************************************************)
EXTENDS Naturals, Sequences, FiniteSets, TLC

\* ------------------------------------------------------------------ bounds

\* Requests issued in one behaviour.
MaxRequests == 3

\* Documents the store assigns an id to; requests address ids 1..MaxPages.
MaxPages == 2

\* Longest input string enumerated in full for validateSlug and generateSlug.
MaxLen == 3

\* Request slots: at most two requests are in flight at once.
Slots == {1, 2}

\* ------------------------------------------------------------------ values

\* JavaScript null (publishedAt, lastViewedAt); timestamps are >= 1.
Null == 0

NoAdmin == "NoAdmin"
NoPage == [missing |-> TRUE]
NoReq == [kind |-> "none", pc |-> "idle"]

\* The admin identity set and the identities a session cookie may carry.
Admins == {"alice"}
Callers == {"alice", "eve"}

Has(d, k) == k \in DOMAIN d

\* {...over, ...under} read right to left: a key of `over` wins.
Merge(over, under) ==
  [k \in (DOMAIN over) \cup (DOMAIN under) |->
     IF k \in DOMAIN over THEN over[k] ELSE under[k]]

\* ------------------------------------------------------------------ strings

Letters == {"a", "b", "c", "d", "e", "f", "g", "h", "i", "j", "k", "l", "m",
            "n", "o", "p", "q", "r", "s", "t", "u", "v", "w", "x", "y", "z"}
Digits == {"0", "1", "2", "3", "4", "5", "6", "7", "8", "9"}
Space == {" "}

\* The letters in alphabetical order, lower and upper case side by side.
Lowercase == <<"a", "b", "c", "d", "e", "f", "g", "h", "i", "j", "k", "l", "m",
               "n", "o", "p", "q", "r", "s", "t", "u", "v", "w", "x", "y", "z">>
Uppercase == <<"A", "B", "C", "D", "E", "F", "G", "H", "I", "J", "K", "L", "M",
               "N", "O", "P", "Q", "R", "S", "T", "U", "V", "W", "X", "Y", "Z">>
UpperLetters == {Uppercase[i] : i \in DOMAIN Uppercase}

\* The regular expression classes \w and \s, the latter over the model's
\* characters.
WordChars == Letters \cup UpperLetters \cup Digits \cup {"_"}

\* A form field read off the body: an absent field reads as undefined, which
\* every validator tests only by falsiness, as it does the empty string.
Field(d, k) == IF Has(d, k) THEN d[k] ELSE << >>

RECURSIVE TrimStart(_)
TrimStart(s) ==
  IF s # << >> /\ Head(s) \in Space THEN TrimStart(Tail(s)) ELSE s

RECURSIVE TrimEnd(_)
TrimEnd(s) ==
  IF s # << >> /\ s[Len(s)] \in Space THEN TrimEnd(SubSeq(s, 1, Len(s) - 1)) ELSE s

Trim(s) == TrimEnd(TrimStart(s))

\* String.prototype.toLowerCase, character by character.
toLowerCase(s) ==
  [i \in 1..Len(s) |->
     IF s[i] \in UpperLetters
       THEN Lowercase[CHOOSE n \in DOMAIN Uppercase : Uppercase[n] = s[i]]
       ELSE s[i]]

\* s without its leading characters of `set`.
RECURSIVE SkipRun(_, _)
SkipRun(s, set) ==
  IF s # << >> /\ Head(s) \in set THEN SkipRun(Tail(s), set) ELSE s

\* s without its trailing characters of `set`.
RECURSIVE DropTail(_, _)
DropTail(s, set) ==
  IF s # << >> /\ s[Len(s)] \in set THEN DropTail(SubSeq(s, 1, Len(s) - 1), set) ELSE s

\* s.replace(/[set]+/g, by): every maximal run of characters of `set` becomes `by`.
RECURSIVE ReplaceRuns(_, _, _)
ReplaceRuns(s, set, by) ==
  IF s = << >> THEN << >>
  ELSE IF Head(s) \in set THEN by \o ReplaceRuns(SkipRun(s, set), set, by)
  ELSE <<Head(s)>> \o ReplaceRuns(Tail(s), set, by)

EndsWith(s, suffix) ==
  /\ Len(s) >= Len(suffix)
  /\ SubSeq(s, Len(s) - Len(suffix) + 1, Len(s)) = suffix

Includes(s, part) ==
  \E i \in 1..(Len(s) + 1) :
    /\ i + Len(part) - 1 <= Len(s)
    /\ SubSeq(s, i, i + Len(part) - 1) = part

NoError == "ok"

\* ------------------------------------------------------------------ validation.ts

\* validateSlug without the check of the first and last character.
validateSlugEdgesUnchecked(slug) ==
  IF slug = << >> THEN "Slug is required"
  ELSE IF Len(slug) < 2 THEN "Slug must be at least 2 characters"
  ELSE IF Len(slug) > 50 THEN "Slug must not exceed 50 characters"
  ELSE IF \E i \in 1..Len(slug) : slug[i] \notin Letters \cup Digits \cup {"-"}
    THEN "Slug must contain only lowercase letters, numbers, and hyphens"
  ELSE NoError

validateSlug(slug) ==
  IF slug = << >> THEN "Slug is required"
  ELSE IF Len(slug) < 2 THEN "Slug must be at least 2 characters"
  ELSE IF Len(slug) > 50 THEN "Slug must not exceed 50 characters"
  ELSE IF \E i \in 1..Len(slug) : slug[i] \notin Letters \cup Digits \cup {"-"}
    THEN "Slug must contain only lowercase letters, numbers, and hyphens"
  ELSE IF slug[1] = "-" \/ slug[Len(slug)] = "-"
    THEN "Slug cannot start or end with a hyphen"
  ELSE NoError

\* generateSlug with the removal of special characters as its last step.
generateSlugCleanLast(title) ==
  LET trimmed == Trim(toLowerCase(title))
      hyphenated == ReplaceRuns(trimmed, Space, <<"-">>)
      single == ReplaceRuns(hyphenated, {"-"}, <<"-">>)
      stripped == DropTail(SkipRun(single, {"-"}), {"-"})
  IN  SelectSeq(stripped, LAMBDA ch : ch \in WordChars \cup Space \cup {"-"})

\* toLowerCase, trim, then the four replace calls in the order of the chain.
generateSlug(title) ==
  LET trimmed == Trim(toLowerCase(title))
      cleaned == SelectSeq(trimmed, LAMBDA ch : ch \in WordChars \cup Space \cup {"-"})
      hyphenated == ReplaceRuns(cleaned, Space, <<"-">>)
      single == ReplaceRuns(hyphenated, {"-"}, <<"-">>)
  IN  DropTail(SkipRun(single, {"-"}), {"-"})

validateMetaDescription(description) ==
  IF description = << >> THEN "Meta description is required"
  ELSE IF Len(description) < 20 THEN "Meta description must be at least 20 characters"
  ELSE IF Len(description) > 160 THEN "Meta description must not exceed 160 characters"
  ELSE NoError

\* new URL(url) succeeds on an absolute URL: a scheme (a letter, then letters,
\* digits, "+", "-", ".") followed by ":".  The model's URLs use a
\* non-special scheme, for which whatever follows the colon parses.
ParsesAsUrl(url) ==
  \E i \in 2..Len(url) :
    /\ url[i] = ":"
    /\ url[1] \in Letters
    /\ \A j \in 1..(i - 1) : url[j] \in Letters \cup Digits \cup {"+", "-", "."}

validateUrl(url) ==
  IF url = << >> THEN NoError
  ELSE IF ParsesAsUrl(url) THEN NoError
  ELSE "Invalid URL format"

validExtensions ==
  { <<".", "j", "p", "g">>, <<".", "j", "p", "e", "g">>, <<".", "p", "n", "g">>,
    <<".", "g", "i", "f">>, <<".", "w", "e", "b", "p">> }

FirebaseHosts ==
  { <<"f", "i", "r", "e", "b", "a", "s", "e", "a", "p", "p", ".", "c", "o", "m">>,
    <<"f", "i", "r", "e", "b", "a", "s", "e", ".", "g", "o", "o", "g", "l", "e", ".", "c", "o", "m">> }

\* The model's image URLs are lower case, so toLowerCase() leaves them alone.
validateOgImage(imageUrl) ==
  IF imageUrl = << >> THEN "Featured image URL is required"
  ELSE IF validateUrl(imageUrl) # NoError THEN "Featured image URL must be valid"
  ELSE IF /\ ~ \E ext \in validExtensions : EndsWith(imageUrl, ext)
          /\ ~ \E host \in FirebaseHosts : Includes(imageUrl, host)
    THEN "Image URL should be a direct image file (jpg, png, gif, webp) or Firebase URL"
  ELSE NoError

validateHtmlContent(html) ==
  IF html = << >> THEN "HTML content is required"
  ELSE IF Len(Trim(html)) < 10 THEN "HTML content must be at least 10 characters"
  ELSE IF Len(Trim(html)) > 1000000 THEN "HTML content exceeds maximum size"
  ELSE NoError

validateEmail(email) ==
  IF email = << >> THEN NoError
  ELSE IF \E at \in 2..(Len(email) - 1) :
            /\ email[at] = "@"
            /\ \A i \in 1..Len(email) : email[i] \notin Space /\ (email[i] = "@" => i = at)
            /\ \E dot \in (at + 2)..(Len(email) - 1) : email[dot] = "."
    THEN NoError
  ELSE "Invalid email format"

validatePhone(phone) ==
  IF phone = << >> THEN NoError
  ELSE IF Len(phone) < 7 THEN "Phone number must be at least 7 digits"
  ELSE IF Len(phone) > 20 THEN "Phone number must not exceed 20 characters"
  ELSE NoError

\* validateRequired with the length check only.
validateRequiredLengthOnly(value, fieldName) ==
  IF Len(value) > 500 THEN "must not exceed 500 characters" ELSE NoError

validateRequired(value, fieldName) ==
  IF value = << >> \/ Trim(value) = << >> THEN "is required"
  ELSE IF Len(value) > 500 THEN "must not exceed 500 characters"
  ELSE NoError

\* The first message of every field of the form, NoError where it passes.
FormChecks(data) ==
  [ businessName     |-> validateRequired(Field(data, "businessName"), "Business name"),
    slug             |-> validateSlug(Field(data, "slug")),
    metaTitle        |-> validateRequired(Field(data, "metaTitle"), "Meta title"),
    metaDescription  |-> validateMetaDescription(Field(data, "metaDescription")),
    ogTitle          |-> validateRequired(Field(data, "ogTitle"), "OG title"),
    ogDescription    |-> validateRequired(Field(data, "ogDescription"), "OG description"),
    ogImage          |-> validateOgImage(Field(data, "ogImage")),
    businessCategory |-> validateRequired(Field(data, "businessCategory"), "Business category"),
    businessLocation |-> validateRequired(Field(data, "businessLocation"), "Business location"),
    htmlContent      |-> validateHtmlContent(Field(data, "htmlContent")),
    businessPhone    |-> IF Field(data, "businessPhone") # << >>
                           THEN validatePhone(data.businessPhone) ELSE NoError,
    businessEmail    |-> IF Field(data, "businessEmail") # << >>
                           THEN validateEmail(data.businessEmail) ELSE NoError,
    businessWebsite  |-> IF Field(data, "businessWebsite") # << >>
                           THEN validateUrl(data.businessWebsite) ELSE NoError ]

\* errors: the fields that fail, each with its message.
validateLandingPageForm(data) ==
  LET checks == FormChecks(data)
  IN  [k \in {f \in DOMAIN checks : checks[f] # NoError} |-> checks[k]]

\* ------------------------------------------------------------------ request bodies

SlugA == <<"a", "b">>
SlugB == <<"c", "d">>
BadSlug == <<"-", "a">>

\* A form that passes every check (the fields of the spec's end-to-end example).
BaseBody ==
  [ businessName     |-> <<"c", "a", "f", "e">>,
    slug             |-> SlugA,
    metaTitle        |-> <<"c", "a", "f", "e">>,
    metaDescription  |-> [i \in 1..20 |-> "d"],
    ogTitle          |-> <<"c", "a", "f", "e">>,
    ogDescription    |-> <<"v", "i", "s", "i", "t">>,
    ogImage          |-> <<"x", ":", "i", ".", "p", "n", "g">>,
    businessCategory |-> <<"f", "o", "o", "d">>,
    businessLocation |-> <<"s", "r", "i">>,
    htmlContent      |-> [i \in 1..10 |-> "w"] ]

\* The status field of a body: absent, or one of the lifecycle values.
StatusFields ==
  { << >> } \cup { [status |-> s] : s \in {"draft", "published", "archived"} }

\* Record metadata a client may put into a JSON body next to the form fields.
Forged ==
  [createdBy |-> "mallory", createdAt |-> 99, publishedAt |-> 99, isPublished |-> TRUE]

\* Every slug with every status field, and one body that also carries metadata.
ValidBodies ==
  { Merge(st, [BaseBody EXCEPT !.slug = s]) : st \in StatusFields, s \in {SlugA, SlugB} }
    \cup { Merge(Forged, BaseBody) }

InvalidBodies ==
  { [BaseBody EXCEPT !.slug = BadSlug],
    [k \in (DOMAIN BaseBody) \ {"businessName"} |-> BaseBody[k]] }

Bodies == ValidBodies \cup InvalidBodies

\* const errors = validateLandingPageForm(body), of each body a request may carry.
errors == [body \in Bodies |-> validateLandingPageForm(body)]

\* Bodies of the publish endpoint: publish is a boolean, or the body has none.
PublishBodies == {[publish |-> TRUE], [publish |-> FALSE], [draft |-> TRUE]}

PageIds == 1..MaxPages

\* ------------------------------------------------------------------ firestore.ts

Undefined == "undefined"

\* page.status of a document: undefined when the document has no such field.
Status(d) == IF Has(d, "status") THEN d.status ELSE Undefined

getLandingPageById(P, id) ==
  IF id \in DOMAIN P THEN Merge(P[id], [id |-> id]) ELSE NoPage

Exists(page) == ~ Has(page, "missing")

\* where('slug', '==', slug).limit(1): the store returns the first match in
\* document-id order.
SlugMatches(P, slug) == {i \in DOMAIN P : Has(P[i], "slug") /\ P[i].slug = slug}

FirstId(ids) == CHOOSE i \in ids : \A j \in ids : i <= j

\* isSlugTaken without the comparison against excludeId.
isSlugTakenExcludeIgnored(P, slug, excludeId) == SlugMatches(P, slug) # {}

\* isSlugTaken with the comparison against excludeId turned around.
isSlugTakenInverted(P, slug, excludeId) ==
  IF SlugMatches(P, slug) = {} THEN FALSE
  ELSE IF excludeId # 0 THEN FirstId(SlugMatches(P, slug)) = excludeId
  ELSE TRUE

\* excludeId = 0 stands for a call without excludeId.
isSlugTaken(P, slug, excludeId) ==
  IF SlugMatches(P, slug) = {} THEN FALSE
  ELSE IF excludeId # 0 THEN FirstId(SlugMatches(P, slug)) # excludeId
  ELSE TRUE

\* pageData of createLandingPage.
createPageData(data, adminId, t) ==
  Merge([ createdAt    |-> t,
          updatedAt    |-> t,
          createdBy    |-> adminId,
          updatedBy    |-> adminId,
          isPublished  |-> (Status(data) = "published"),
          publishedAt  |-> IF Status(data) = "published" THEN t ELSE Null,
          viewCount    |-> 0,
          lastViewedAt |-> Null ],
        data)

\* updateData of updateLandingPage, computed from the document it read.
updateDataOf(data, oldDoc, adminId, t) ==
  LET base == Merge([ updatedAt   |-> t,
                      updatedBy   |-> adminId,
                      isPublished |-> (Status(data) = "published") ],
                    data)
      set == IF Status(data) = "published" /\ ~ oldDoc.isPublished
               THEN Merge([publishedAt |-> t], base) ELSE base
  IN  IF Status(data) # "published" /\ oldDoc.isPublished
        THEN Merge([publishedAt |-> Null], set) ELSE set

\* doc(id).update(updateData): the fields named are overwritten, the others kept.
ApplyUpdate(P, id, updateData) ==
  [P EXCEPT ![id] = Merge(updateData, P[id])]

RemoveDoc(P, id) == [i \in (DOMAIN P) \ {id} |-> P[i]]

AddDoc(P, id, pageData) == [i \in (DOMAIN P) \cup {id} |-> IF i = id THEN pageData ELSE P[i]]

\* The query on the derived flag isPublished instead of on status.
PublishedIdsByFlag(P) ==
  {i \in DOMAIN P : P[i].isPublished /\ Has(P[i], "publishedAt")}

\* The documents getPublishedLandingPages returns: status == 'published', and
\* orderBy('publishedAt') keeps the documents that have the field (null included).
PublishedIds(P) ==
  {i \in DOMAIN P : Status(P[i]) = "published" /\ Has(P[i], "publishedAt")}

\* A sequence of the ids in `ids`, by publishedAt descending (then by id).
Before(P, i, j) ==
  \/ P[i].publishedAt > P[j].publishedAt
  \/ P[i].publishedAt = P[j].publishedAt /\ i <= j

RECURSIVE OrderedBy(_, _)
OrderedBy(P, ids) ==
  IF ids = {} THEN << >>
  ELSE LET first == CHOOSE i \in ids : \A j \in ids : Before(P, i, j)
       IN  <<first>> \o OrderedBy(P, ids \ {first})

getPublishedLandingPages(P) ==
  LET order == OrderedBy(P, PublishedIds(P))
  IN  [n \in 1..Len(order) |-> getLandingPageById(P, order[n])]

\* orderBy('updatedAt', 'desc'), documents of one time by id.
Newer(P, i, j) ==
  \/ P[i].updatedAt > P[j].updatedAt
  \/ P[i].updatedAt = P[j].updatedAt /\ i <= j

RECURSIVE ByUpdatedAt(_, _)
ByUpdatedAt(P, ids) ==
  IF ids = {} THEN << >>
  ELSE LET first == CHOOSE i \in ids : \A j \in ids : Newer(P, i, j)
       IN  <<first>> \o ByUpdatedAt(P, ids \ {first})

\* getLandingPages could not finish: an exception leaves it.
Throws == [threw |-> TRUE]

\* page.title.toLowerCase().includes(searchLower) || ... of the search filter,
\* for a page that has the three fields.
SearchHit(page, searchLower) ==
  \/ Includes(toLowerCase(page.title), searchLower)
  \/ Includes(toLowerCase(page.slug), searchLower)
  \/ Includes(toLowerCase(page.businessName), searchLower)

\* getLandingPages(filters): the where clauses on status and businessCategory,
\* the order, then the search over the documents fetched.  Reading title of a
\* document that has none yields undefined, and undefined.toLowerCase() throws
\* a TypeError; slug and businessName are only reached behind a title.
getLandingPages(P, filters) ==
  LET ids == {i \in DOMAIN P :
                /\ Has(filters, "status")
                     => (Has(P[i], "status") /\ P[i].status = filters.status)
                /\ Has(filters, "category")
                     => (Has(P[i], "businessCategory")
                           /\ P[i].businessCategory = filters.category)}
      order == ByUpdatedAt(P, ids)
      fetched == [n \in 1..Len(order) |-> getLandingPageById(P, order[n])]
  IN  IF ~ Has(filters, "search") THEN [pages |-> fetched]
      ELSE IF \E n \in DOMAIN fetched : ~ Has(fetched[n], "title") THEN Throws
      ELSE [pages |-> SelectSeq(fetched,
                                LAMBDA page : SearchHit(page, toLowerCase(filters.search)))]

\* ------------------------------------------------------------------ state

VARIABLES
  pages,     \* the landingPages collection: document id -> document data
  nextId,    \* the id the store gives the next added document
  now,       \* the clock new Date() reads
  audit,     \* the auditLogs collection, in the order written
  rebuilds,  \* invocations of triggerRebuild so far
  req,       \* per slot, the request in flight with its handler's locals
  last,      \* the request answered most recently, with its response
  issued,    \* requests arrived so far
  adminSet,  \* the admins collection: the identities that are admins now
  cookie,    \* the session cookie the login endpoint has set in the browser
  site,      \* the slugs of the pages the last completed build emitted
  built,     \* rebuild requests the build pipeline has worked off
  arg,       \* the input a library function is applied to
  returned,  \* what it returned
  dash,      \* the admin dashboard component: its React state and the route
  hook       \* the useAuth hook: its React state and the auth SDK's user

vars == <<pages, nextId, now, audit, rebuilds, req, last, issued,
          adminSet, cookie, site, built, arg, returned, dash, hook>>

\* The state of the browser side.
client == <<dash, hook>>

\* What the admin API handlers leave alone.
aux == <<adminSet, cookie, site, built, arg, returned, dash, hook>>

\* getCurrentAdmin: the admin of the session, when its subject is in the admin
\* set at the time of the call.
getCurrentAdmin(uid) == IF uid \in adminSet THEN uid ELSE NoAdmin

NoCookie == "NoCookie"
NoArg == [none |-> TRUE]
NoResult == [none |-> TRUE]

\* What a request has done so far: reads and writes of the page collection,
\* validator calls, audit writes, rebuild-trigger invocations; flips counts its
\* writes that moved a record into or out of status published.
NoOps ==
  [reads |-> 0, writes |-> 0, validations |-> 0, audits |-> 0, rebuilds |-> 0, flips |-> 0]

Did(ops, what) == [ops EXCEPT ![what] = @ + 1]

\* The dashboard as it mounts: useState([]), true, null, 'all'; no alert shown.
NoMessage == "null"

DashInit ==
  [route |-> "dashboard", pages |-> << >>, fetchLoading |-> TRUE,
   error |-> NoMessage, filter |-> "all", alert |-> NoMessage]

\* The hook as it mounts: useState(null), true, null, false; nobody is signed
\* in with the auth SDK, no listener callback is running and no auth-state
\* event has been delivered.
NoUser == "null"

HookInit ==
  [user |-> NoUser, loading |-> TRUE, error |-> NoMessage, isAdmin |-> FALSE,
   currentUser |-> NoUser, running |-> {}, events |-> 0,
   recent |-> [identity |-> NoUser, login |-> "none"]]

Init ==
  /\ pages = << >>
  /\ nextId = 1
  /\ now = 1
  /\ audit = << >>
  /\ rebuilds = 0
  /\ req = [c \in Slots |-> NoReq]
  /\ last = [kind |-> "none"]
  /\ issued = 0
  /\ adminSet = Admins
  /\ cookie = NoCookie
  /\ site = {}
  /\ built = 0
  /\ arg = NoArg
  /\ returned = NoResult
  /\ dash = DashInit
  /\ hook = HookInit

Idle(c) == req[c].pc = "idle"

\* A request arrives in the lowest free slot.
Arrives(c) ==
  /\ issued < MaxRequests
  /\ Idle(c)
  /\ \A d \in Slots : d < c => ~ Idle(d)

\* Create requests that may still add a document.
PendingCreates == {c \in Slots : req[c].kind = "create" /\ req[c].pc = "write"}

NewReq(kind, admin, id, body, pc, ops) ==
  [kind |-> kind, pc |-> pc, admin |-> admin, id |-> id, body |-> body,
   updateData |-> << >>, ops |-> ops]

\* Another record than `id` holds the slug.
SlugOwnedByOther(P, slug, id) ==
  \E j \in DOMAIN P : j # id /\ Has(P[j], "slug") /\ P[j].slug = slug

NoStatus == "-"

\* const newStatus = publish ? 'published' : 'draft'
NewStatus(publish) == IF publish THEN "published" ELSE "draft"

\* The handler returns NextResponse.json(..., {status: code}).
\* What is recorded of the answered request: `note` names the return statement
\* taken and `shown` the page status in the response.  A handler reads the id
\* and the body only after the session check, so of a request with an admin:
\* `found` says whether the addressed record is in the store; of a create or
\* update, `valid` whether the body passes validateLandingPageForm and `taken`
\* whether another record holds its slug; of a toggle, `target` is the status
\* asked for and `current` the status of the addressed record, all as the
\* answering step finds them.
Answer(kind, admin, id, body, code, ops, note, shown) ==
  LET authed == admin # NoAdmin
      form == authed /\ kind \in {"create", "put"}
      toggle == authed /\ kind = "publish"
  IN  last' = [kind |-> kind, resp |-> code, ops |-> ops, note |-> note, shown |-> shown,
               authed |-> authed,
               found |-> authed /\ id \in DOMAIN pages,
               valid |-> form => DOMAIN errors[body] = {},
               taken |-> /\ form
                         /\ Has(body, "slug")
                         /\ SlugOwnedByOther(pages, body.slug, id),
               target |-> IF toggle /\ Has(body, "publish")
                            THEN NewStatus(body.publish) ELSE NoStatus,
               current |-> IF toggle /\ id \in DOMAIN pages
                             THEN Status(pages[id]) ELSE NoStatus]

\* A request answered by the step it arrives with.
Reply(kind, admin, id, body, code, ops, note, shown) ==
  /\ Answer(kind, admin, id, body, code, ops, note, shown)
  /\ issued' = issued + 1
  /\ UNCHANGED req

\* A request that goes on to a further await is taken in flight in slot c.
Admit(c, r) ==
  /\ issued' = issued + 1
  /\ req' = [req EXCEPT ![c] = r]
  /\ UNCHANGED last

\* The request in flight in slot c is answered.
Finish(c, code, ops, note) ==
  /\ Answer(req[c].kind, req[c].admin, req[c].id, req[c].body, code, ops, note, NoStatus)
  /\ req' = [req EXCEPT ![c] = NoReq]
  /\ UNCHANGED issued

Goto(c, pc, ops) ==
  /\ req' = [req EXCEPT ![c].pc = pc, ![c].ops = ops]
  /\ UNCHANGED <<last, issued>>

\* logAuditEvent(action, adminId, 'landingPage', id, changes): one entry appended.
logAuditEvent(log, action, adminId, targetId) ==
  Append(log, [action |-> action, adminId |-> adminId, targetId |-> targetId])

\* Each handler starts with getCurrentAdmin(), which reads the session and the
\* admin set and nothing of the page collection; a handler's steps are cut at
\* its accesses to the page collection and the audit log, the first of them
\* taken together with the session check and the body checks before it.

\* ------------------------------------------------------------------ GET /api/landing-pages

\* The list handler taking the admin from the identities that were admins when
\* the session began, without a call of getCurrentAdmin.
ListSessionTrusted(c) ==
  /\ Arrives(c)
  /\ \E uid \in Callers :
       IF uid \notin Admins
         THEN Reply("list", NoAdmin, 0, << >>, 401, NoOps, "unauthorized", NoStatus)
         ELSE Reply("list", uid, 0, << >>, 200, Did(NoOps, "reads"), "listed", NoStatus)
  /\ UNCHANGED <<pages, nextId, now, audit, rebuilds>>
  /\ UNCHANGED aux

\* getCurrentAdmin (401), getLandingPages, 200.
List(c) ==
  /\ Arrives(c)
  /\ \E uid \in Callers :
       IF getCurrentAdmin(uid) = NoAdmin
         THEN Reply("list", NoAdmin, 0, << >>, 401, NoOps, "unauthorized", NoStatus)
         ELSE Reply("list", uid, 0, << >>, 200, Did(NoOps, "reads"), "listed", NoStatus)
  /\ UNCHANGED <<pages, nextId, now, audit, rebuilds>>
  /\ UNCHANGED aux

\* The query parameters of a list request: each of status, category and search
\* given or not (an empty value counts as not given).
Queries ==
  { Merge(st, Merge(cat, se)) :
      st \in { << >>, [status |-> "draft"], [status |-> "published"] },
      cat \in { << >>, [category |-> BaseBody.businessCategory] },
      se \in { << >>, [search |-> <<"A">>], [search |-> <<"z">>] } }

\* GET with query parameters: getCurrentAdmin (401), getLandingPages(filters),
\* 200 with data and count; an exception out of getLandingPages is caught and
\* answered 500.
ListFiltered ==
  /\ Arrives(1)
  /\ \E uid \in Callers, filters \in Queries :
       /\ arg' = [query |-> filters]
       /\ IF getCurrentAdmin(uid) = NoAdmin
            THEN /\ Reply("list", NoAdmin, 0, << >>, 401, NoOps, "unauthorized", NoStatus)
                 /\ returned' = [resp |-> 401]
          ELSE LET result == getLandingPages(pages, filters)
               IN  IF result = Throws
                     THEN /\ Reply("list", uid, 0, << >>, 500, Did(NoOps, "reads"),
                                   "server error", NoStatus)
                          /\ returned' = [resp |-> 500]
                     ELSE /\ Reply("list", uid, 0, << >>, 200, Did(NoOps, "reads"),
                                   "filtered", NoStatus)
                          /\ returned' = [resp |-> 200,
                                          data |-> [n \in DOMAIN result.pages |-> result.pages[n].id],
                                          count |-> Len(result.pages)]
  /\ UNCHANGED <<pages, nextId, now, audit, rebuilds, adminSet, cookie, site, built>>
  /\ UNCHANGED client

\* ------------------------------------------------------------------ POST /api/landing-pages

\* getCurrentAdmin (401), validateLandingPageForm (400), isSlugTaken (400).
CreateBegin(c) ==
  /\ Arrives(c)
  /\ \E uid \in Callers, body \in Bodies :
       LET checked == Did(NoOps, "validations")
       IN  IF getCurrentAdmin(uid) = NoAdmin
             THEN Reply("create", NoAdmin, 0, body, 401, NoOps, "unauthorized", NoStatus)
           ELSE IF DOMAIN errors[body] # {}
             THEN Reply("create", uid, 0, body, 400, checked, "invalid", NoStatus)
           ELSE IF isSlugTaken(pages, body.slug, 0)
             THEN Reply("create", uid, 0, body, 400, Did(checked, "reads"), "slug taken", NoStatus)
           ELSE /\ nextId + Cardinality(PendingCreates) <= MaxPages
                /\ Admit(c, NewReq("create", uid, 0, body, "write", Did(checked, "reads")))
  /\ UNCHANGED <<pages, nextId, now, audit, rebuilds>>
  /\ UNCHANGED aux

\* createLandingPage adding the document only while no record has the slug,
\* check and write in one transaction.
CreateWriteIfFree(c) ==
  /\ req[c].kind = "create" /\ req[c].pc = "write"
  /\ IF isSlugTaken(pages, req[c].body.slug, 0)
       THEN /\ Finish(c, 400, req[c].ops, "slug taken")
            /\ UNCHANGED <<pages, nextId, now>>
       ELSE /\ pages' = AddDoc(pages, nextId, createPageData(req[c].body, req[c].admin, now))
            /\ nextId' = nextId + 1
            /\ now' = now + 1
            /\ req' = [req EXCEPT ![c].pc = "audit", ![c].id = nextId,
                                  ![c].ops = Did(req[c].ops, "writes")]
            /\ UNCHANGED <<last, issued>>
  /\ UNCHANGED <<audit, rebuilds>>
  /\ UNCHANGED aux

\* createLandingPage(body, admin.uid)
CreateWrite(c) ==
  /\ req[c].kind = "create" /\ req[c].pc = "write"
  /\ pages' = AddDoc(pages, nextId, createPageData(req[c].body, req[c].admin, now))
  /\ nextId' = nextId + 1
  /\ now' = now + 1
  /\ req' = [req EXCEPT ![c].pc = "audit", ![c].id = nextId,
                        ![c].ops = IF Status(req[c].body) = "published"
                                     THEN Did(Did(req[c].ops, "writes"), "flips")
                                     ELSE Did(req[c].ops, "writes")]
  /\ UNCHANGED <<audit, rebuilds, last, issued>>
  /\ UNCHANGED aux

\* await logAuditEvent('page_created', ...), then the 201; a rejected audit
\* write is caught by the handler's catch and answered 500.
CreateAudit(c) ==
  /\ req[c].kind = "create" /\ req[c].pc = "audit"
  /\ \E written \in BOOLEAN :
       IF written
         THEN /\ audit' = logAuditEvent(audit, "page_created", req[c].admin, req[c].id)
              /\ Finish(c, 201, Did(req[c].ops, "audits"), "created")
         ELSE /\ UNCHANGED audit
              /\ Finish(c, 500, req[c].ops, "server error")
  /\ UNCHANGED <<pages, nextId, now, rebuilds>>
  /\ UNCHANGED aux

\* ------------------------------------------------------------------ GET /api/landing-pages/[id]

\* getCurrentAdmin (401), getLandingPageById (404), 200.
GetById(c) ==
  /\ Arrives(c)
  /\ \E uid \in Callers, id \in PageIds :
       IF getCurrentAdmin(uid) = NoAdmin
         THEN Reply("get", NoAdmin, id, << >>, 401, NoOps, "unauthorized", NoStatus)
       ELSE IF ~ Exists(getLandingPageById(pages, id))
         THEN Reply("get", uid, id, << >>, 404, Did(NoOps, "reads"), "not found", NoStatus)
       ELSE Reply("get", uid, id, << >>, 200, Did(NoOps, "reads"), "found", NoStatus)
  /\ UNCHANGED <<pages, nextId, now, audit, rebuilds>>
  /\ UNCHANGED aux

\* ------------------------------------------------------------------ updateLandingPage

\* The data a handler passes to updateLandingPage: the PUT body, or
\* {status: newStatus} of the publish toggle.
UpdateArg(r) ==
  IF r.kind = "put" THEN r.body ELSE [status |-> NewStatus(r.body.publish)]

\* updateLandingPage up to its write: now = new Date(), oldDoc is read, false is
\* returned when there is none (the handler answers 400), updateData is built.
UpdateRead(c) ==
  /\ req[c].kind \in {"put", "publish"} /\ req[c].pc = "update"
  /\ now' = now + 1
  /\ LET oldDoc == getLandingPageById(pages, req[c].id)
     IN  IF ~ Exists(oldDoc)
           THEN Finish(c, 400, Did(req[c].ops, "reads"), "update failed")
           ELSE /\ req' = [req EXCEPT
                             ![c].pc = "write",
                             ![c].ops = Did(req[c].ops, "reads"),
                             ![c].updateData =
                               updateDataOf(UpdateArg(req[c]), oldDoc, req[c].admin, now)]
                /\ UNCHANGED <<last, issued>>
  /\ UNCHANGED <<pages, nextId, audit, rebuilds>>
  /\ UNCHANGED aux

\* doc(id).update(updateData): rejected when the document is gone by now, which
\* the handler's catch answers with 500.
UpdateWrite(c) ==
  /\ req[c].kind \in {"put", "publish"} /\ req[c].pc = "write"
  /\ IF req[c].id \in DOMAIN pages
       THEN /\ pages' = ApplyUpdate(pages, req[c].id, req[c].updateData)
            /\ Goto(c, "audit",
                    IF (Status(pages[req[c].id]) = "published")
                         # (Status(pages'[req[c].id]) = "published")
                      THEN Did(Did(req[c].ops, "writes"), "flips")
                      ELSE Did(req[c].ops, "writes"))
       ELSE /\ Finish(c, 500, req[c].ops, "server error")
            /\ UNCHANGED pages
  /\ UNCHANGED <<nextId, now, audit, rebuilds>>
  /\ UNCHANGED aux

\* ------------------------------------------------------------------ PUT /api/landing-pages/[id]

\* PUT without the return on a missing admin.
PutBeginNoSessionCheck(c) ==
  /\ Arrives(c)
  /\ \E uid \in Callers, id \in PageIds, body \in Bodies :
       LET admin == getCurrentAdmin(uid)
           oldPage == getLandingPageById(pages, id)
           read == Did(NoOps, "reads")
       IN  IF ~ Exists(oldPage)
             THEN Reply("put", admin, id, body, 404, read, "not found", NoStatus)
           ELSE IF DOMAIN errors[body] # {}
             THEN Reply("put", admin, id, body, 400, Did(read, "validations"), "invalid", NoStatus)
           ELSE Admit(c, NewReq("put", admin, id, body,
                                IF body.slug # oldPage.slug THEN "slug" ELSE "update",
                                Did(read, "validations")))
  /\ UNCHANGED <<pages, nextId, now, audit, rebuilds>>
  /\ UNCHANGED aux

\* PUT without the validateLandingPageForm check.
PutBeginUnvalidated(c) ==
  /\ Arrives(c)
  /\ \E uid \in Callers, id \in PageIds, body \in Bodies :
       LET oldPage == getLandingPageById(pages, id)
           read == Did(NoOps, "reads")
       IN  IF getCurrentAdmin(uid) = NoAdmin
             THEN Reply("put", NoAdmin, id, body, 401, NoOps, "unauthorized", NoStatus)
           ELSE IF ~ Exists(oldPage)
             THEN Reply("put", uid, id, body, 404, read, "not found", NoStatus)
           ELSE Admit(c, NewReq("put", uid, id, body,
                                IF Field(body, "slug") # oldPage.slug THEN "slug" ELSE "update",
                                read))
  /\ UNCHANGED <<pages, nextId, now, audit, rebuilds>>
  /\ UNCHANGED aux

\* getCurrentAdmin (401), oldPage is loaded (404), the body validated (400); a
\* body that keeps the slug of oldPage skips the uniqueness check.
PutBegin(c) ==
  /\ Arrives(c)
  /\ \E uid \in Callers, id \in PageIds, body \in Bodies :
       LET oldPage == getLandingPageById(pages, id)
           read == Did(NoOps, "reads")
       IN  IF getCurrentAdmin(uid) = NoAdmin
             THEN Reply("put", NoAdmin, id, body, 401, NoOps, "unauthorized", NoStatus)
           ELSE IF ~ Exists(oldPage)
             THEN Reply("put", uid, id, body, 404, read, "not found", NoStatus)
           ELSE IF DOMAIN errors[body] # {}
             THEN Reply("put", uid, id, body, 400, Did(read, "validations"), "invalid", NoStatus)
           ELSE Admit(c, NewReq("put", uid, id, body,
                                IF body.slug # oldPage.slug THEN "slug" ELSE "update",
                                Did(read, "validations")))
  /\ UNCHANGED <<pages, nextId, now, audit, rebuilds>>
  /\ UNCHANGED aux

PutSlugCheck(c) ==
  /\ req[c].kind = "put" /\ req[c].pc = "slug"
  /\ IF isSlugTaken(pages, req[c].body.slug, req[c].id)
       THEN Finish(c, 400, Did(req[c].ops, "reads"), "slug taken")
       ELSE Goto(c, "update", Did(req[c].ops, "reads"))
  /\ UNCHANGED <<pages, nextId, now, audit, rebuilds>>
  /\ UNCHANGED aux

PutAudit(c) ==
  /\ req[c].kind = "put" /\ req[c].pc = "audit"
  /\ \E written \in BOOLEAN :
       IF written
         THEN /\ audit' = logAuditEvent(audit, "page_updated", req[c].admin, req[c].id)
              /\ Finish(c, 200, Did(req[c].ops, "audits"), "updated")
         ELSE /\ UNCHANGED audit
              /\ Finish(c, 500, req[c].ops, "server error")
  /\ UNCHANGED <<pages, nextId, now, rebuilds>>
  /\ UNCHANGED aux

\* ------------------------------------------------------------------ DELETE /api/landing-pages/[id]

\* getCurrentAdmin (401), the page is loaded (404).
DeleteBegin(c) ==
  /\ Arrives(c)
  /\ \E uid \in Callers, id \in PageIds :
       IF getCurrentAdmin(uid) = NoAdmin
         THEN Reply("delete", NoAdmin, id, << >>, 401, NoOps, "unauthorized", NoStatus)
       ELSE IF ~ Exists(getLandingPageById(pages, id))
         THEN Reply("delete", uid, id, << >>, 404, Did(NoOps, "reads"), "not found", NoStatus)
       ELSE Admit(c, NewReq("delete", uid, id, << >>, "delete", Did(NoOps, "reads")))
  /\ UNCHANGED <<pages, nextId, now, audit, rebuilds>>
  /\ UNCHANGED aux

\* deleteLandingPage up to its write: false when the document is not there.
DeleteRead(c) ==
  /\ req[c].kind = "delete" /\ req[c].pc = "delete"
  /\ IF ~ Exists(getLandingPageById(pages, req[c].id))
       THEN Finish(c, 400, Did(req[c].ops, "reads"), "delete failed")
       ELSE Goto(c, "write", Did(req[c].ops, "reads"))
  /\ UNCHANGED <<pages, nextId, now, audit, rebuilds>>
  /\ UNCHANGED aux

\* doc(id).delete(): succeeds whether or not the document is still there.
DeleteWrite(c) ==
  /\ req[c].kind = "delete" /\ req[c].pc = "write"
  /\ pages' = RemoveDoc(pages, req[c].id)
  /\ Goto(c, "audit",
          IF req[c].id \in DOMAIN pages /\ Status(pages[req[c].id]) = "published"
            THEN Did(Did(req[c].ops, "writes"), "flips")
            ELSE Did(req[c].ops, "writes"))
  /\ UNCHANGED <<nextId, now, audit, rebuilds>>
  /\ UNCHANGED aux

\* DELETE answering 200 without the logAuditEvent call.
DeleteAuditSkipped(c) ==
  /\ req[c].kind = "delete" /\ req[c].pc = "audit"
  /\ Finish(c, 200, req[c].ops, "deleted")
  /\ UNCHANGED <<pages, nextId, now, audit, rebuilds>>
  /\ UNCHANGED aux

DeleteAudit(c) ==
  /\ req[c].kind = "delete" /\ req[c].pc = "audit"
  /\ \E written \in BOOLEAN :
       IF written
         THEN /\ audit' = logAuditEvent(audit, "page_deleted", req[c].admin, req[c].id)
              /\ Finish(c, 200, Did(req[c].ops, "audits"), "deleted")
         ELSE /\ UNCHANGED audit
              /\ Finish(c, 500, req[c].ops, "server error")
  /\ UNCHANGED <<pages, nextId, now, rebuilds>>
  /\ UNCHANGED aux

\* ------------------------------------------------------------------ POST /api/landing-pages/[id]/publish

\* The toggle without the "already in desired state" return.
PublishBeginNoSkip(c) ==
  /\ Arrives(c)
  /\ \E uid \in Callers, id \in PageIds, body \in PublishBodies :
       IF getCurrentAdmin(uid) = NoAdmin
         THEN Reply("publish", NoAdmin, id, body, 401, NoOps, "unauthorized", NoStatus)
       ELSE IF ~ Has(body, "publish")
         THEN Reply("publish", uid, id, body, 400, NoOps, "invalid", NoStatus)
       ELSE IF ~ Exists(getLandingPageById(pages, id))
         THEN Reply("publish", uid, id, body, 404, Did(NoOps, "reads"), "not found", NoStatus)
       ELSE Admit(c, NewReq("publish", uid, id, body, "update", Did(NoOps, "reads")))
  /\ UNCHANGED <<pages, nextId, now, audit, rebuilds>>
  /\ UNCHANGED aux

\* getCurrentAdmin (401), typeof publish (400), the page is loaded (404); a
\* page already in the requested status is answered 200 at once.
PublishBegin(c) ==
  /\ Arrives(c)
  /\ \E uid \in Callers, id \in PageIds, body \in PublishBodies :
       LET page == getLandingPageById(pages, id)
           read == Did(NoOps, "reads")
       IN  IF getCurrentAdmin(uid) = NoAdmin
             THEN Reply("publish", NoAdmin, id, body, 401, NoOps, "unauthorized", NoStatus)
           ELSE IF ~ Has(body, "publish")
             THEN Reply("publish", uid, id, body, 400, NoOps, "invalid", NoStatus)
           ELSE IF ~ Exists(page)
             THEN Reply("publish", uid, id, body, 404, read, "not found", NoStatus)
           ELSE IF Status(page) = NewStatus(body.publish)
             THEN Reply("publish", uid, id, body, 200, read, "already", NewStatus(body.publish))
           ELSE Admit(c, NewReq("publish", uid, id, body, "update", read))
  /\ UNCHANGED <<pages, nextId, now, audit, rebuilds>>
  /\ UNCHANGED aux

\* The toggle awaiting triggerRebuild(): a dispatch that fails reaches the
\* handler's catch.
PublishAuditAwaitsRebuild(c) ==
  /\ req[c].kind = "publish" /\ req[c].pc = "audit"
  /\ \E written \in BOOLEAN, dispatched \in BOOLEAN :
       IF written
         THEN /\ audit' = logAuditEvent(
                            audit,
                            IF req[c].body.publish THEN "page_published" ELSE "page_unpublished",
                            req[c].admin, req[c].id)
              /\ rebuilds' = rebuilds + 1
              /\ Answer("publish", req[c].admin, req[c].id, req[c].body,
                        IF dispatched THEN 200 ELSE 500,
                        Did(Did(req[c].ops, "audits"), "rebuilds"),
                        IF dispatched THEN "toggled" ELSE "server error",
                        NewStatus(req[c].body.publish))
              /\ req' = [req EXCEPT ![c] = NoReq]
              /\ UNCHANGED issued
         ELSE /\ UNCHANGED <<audit, rebuilds>>
              /\ Finish(c, 500, req[c].ops, "server error")
  /\ UNCHANGED <<pages, nextId, now>>
  /\ UNCHANGED aux

\* await logAuditEvent(...), then triggerRebuild() is invoked and not awaited,
\* then the 200.
PublishAudit(c) ==
  /\ req[c].kind = "publish" /\ req[c].pc = "audit"
  /\ \E written \in BOOLEAN :
       IF written
         THEN /\ audit' = logAuditEvent(
                            audit,
                            IF req[c].body.publish THEN "page_published" ELSE "page_unpublished",
                            req[c].admin, req[c].id)
              /\ rebuilds' = rebuilds + 1
              /\ Answer("publish", req[c].admin, req[c].id, req[c].body, 200,
                        Did(Did(req[c].ops, "audits"), "rebuilds"), "toggled",
                        NewStatus(req[c].body.publish))
              /\ req' = [req EXCEPT ![c] = NoReq]
              /\ UNCHANGED issued
         ELSE /\ UNCHANGED <<audit, rebuilds>>
              /\ Finish(c, 500, req[c].ops, "server error")
  /\ UNCHANGED <<pages, nextId, now>>
  /\ UNCHANGED aux

\* ------------------------------------------------------------------ POST /api/auth/login

\* The token field of a login body: absent, not a string, or a string.  A
\* string that the identity provider verifies reads as its subject.
NoToken == [type |-> "undefined"]

Tokens ==
  { NoToken, [type |-> "number"], [type |-> "string", text |-> ""],
    [type |-> "string", text |-> "forged"] }
    \cup { [type |-> "string", text |-> uid] : uid \in Callers }

Rejects == "rejects"

\* verifyAdminToken: the token is verified with the identity provider, which
\* rejects an invalid one; the subject of a verified one is looked up in the
\* admin set, null when it is not there.
verifyAdminToken(token) ==
  IF token.text \notin Callers THEN Rejects
  ELSE IF token.text \notin adminSet THEN NoAdmin
  ELSE token.text

\* Login setting the cookie before it looks at the admin.
LoginCookieFirst ==
  /\ Arrives(1)
  /\ \E token \in Tokens :
       /\ arg' = [token |-> token]
       /\ IF token.type # "string" \/ token.text = ""
            THEN /\ Reply("login", NoAdmin, 0, << >>, 400, NoOps, "token required", NoStatus)
                 /\ UNCHANGED cookie
          ELSE IF verifyAdminToken(token) = Rejects
            THEN /\ Reply("login", NoAdmin, 0, << >>, 500, NoOps, "server error", NoStatus)
                 /\ UNCHANGED cookie
          ELSE /\ cookie' = token.text
               /\ IF verifyAdminToken(token) = NoAdmin
                    THEN Reply("login", NoAdmin, 0, << >>, 403, NoOps, "no admin access", NoStatus)
                    ELSE Reply("login", token.text, 0, << >>, 200, NoOps, "logged in", NoStatus)
  /\ UNCHANGED <<pages, nextId, now, audit, rebuilds, adminSet, site, built, returned>>
  /\ UNCHANGED client

\* token missing or not a string (400), verifyAdminToken (a rejection is
\* caught: 500; null: 403), setAuthCookie(token), 200.
Login ==
  /\ Arrives(1)
  /\ \E token \in Tokens :
       /\ arg' = [token |-> token]
       /\ IF token.type # "string" \/ token.text = ""
            THEN /\ Reply("login", NoAdmin, 0, << >>, 400, NoOps, "token required", NoStatus)
                 /\ UNCHANGED cookie
          ELSE IF verifyAdminToken(token) = Rejects
            THEN /\ Reply("login", NoAdmin, 0, << >>, 500, NoOps, "server error", NoStatus)
                 /\ UNCHANGED cookie
          ELSE IF verifyAdminToken(token) = NoAdmin
            THEN /\ Reply("login", NoAdmin, 0, << >>, 403, NoOps, "no admin access", NoStatus)
                 /\ UNCHANGED cookie
          ELSE /\ cookie' = token.text
               /\ Reply("login", token.text, 0, << >>, 200, NoOps, "logged in", NoStatus)
  /\ UNCHANGED <<pages, nextId, now, audit, rebuilds, adminSet, site, built, returned>>
  /\ UNCHANGED client

\* An identity is taken out of the admins collection.
RemoveAdmin ==
  /\ \E uid \in adminSet :
       /\ adminSet' = adminSet \ {uid}
       /\ arg' = [removed |-> uid, at |-> issued]
  /\ UNCHANGED <<pages, nextId, now, audit, rebuilds, req, last, issued,
                 cookie, site, built, returned>>
  /\ UNCHANGED client

\* ------------------------------------------------------------------ static build, sitemap.ts

\* generateStaticParams at build time: one page per published record, keyed
\* by its slug.
generateStaticParams(P) ==
  LET published == getPublishedLandingPages(P)
  IN  {published[n].slug : n \in DOMAIN published}

\* The build pipeline works off one dispatched rebuild request: the pages it
\* emits replace the ones served.  A dispatch that failed is a request that is
\* never worked off.
Build ==
  /\ built < rebuilds
  /\ built' = built + 1
  /\ site' = generateStaticParams(pages)
  /\ UNCHANGED <<pages, nextId, now, audit, rebuilds, req, last, issued,
                 adminSet, cookie, arg, returned>>
  /\ UNCHANGED client

\* The dispatch of a rebuild request fails: the promise of triggerRebuild()
\* rejects, the .catch() logs it, and no build comes of it.
RebuildFails ==
  /\ built < rebuilds
  /\ built' = built + 1
  /\ arg' = [dispatch |-> "failed", request |-> built + 1]
  /\ UNCHANGED <<pages, nextId, now, audit, rebuilds, req, last, issued,
                 adminSet, cookie, site, returned>>
  /\ UNCHANGED client

\* URLs are paths below SITE_URL.
SITE_URL == << >>

Path(name) == SITE_URL \o <<"/">> \o name

\* priority is in tenths.
Entry(url, lastModified, changeFrequency, priority) ==
  [url |-> url, lastModified |-> lastModified,
   changeFrequency |-> changeFrequency, priority |-> priority]

\* staticPages of the try branch.
staticPages(t) ==
  << Entry(SITE_URL, t, "weekly", 10),
     Entry(Path(<<"a", "b", "o", "u", "t">>), t, "monthly", 7),
     Entry(Path(<<"p", "r", "i", "v", "a", "c", "y">>), t, "yearly", 5),
     Entry(Path(<<"t", "e", "r", "m", "s">>), t, "yearly", 5),
     Entry(Path(<<"p", "l", "a", "n", "s">>), t, "monthly", 7) >>

\* pageEntries: one entry per page getPublishedLandingPages returned.
pageEntries(P) ==
  LET published == getPublishedLandingPages(P)
  IN  [n \in DOMAIN published |->
         Entry(Path(published[n].slug), published[n].updatedAt, "monthly", 8)]

\* sitemap(): the try branch when the store answers, the catch branch when
\* getPublishedLandingPages rejects.
sitemap(P, reachable, t) ==
  IF reachable
    THEN staticPages(t) \o pageEntries(P)
    ELSE << Entry(SITE_URL, t, "weekly", 10) >>

\* The sitemap is generated, the store answering or not.
Sitemap ==
  /\ \E reachable \in BOOLEAN :
       /\ arg' = [reachable |-> reachable]
       /\ returned' = [entries |-> sitemap(pages, reachable, now)]
  /\ UNCHANGED <<pages, nextId, now, audit, rebuilds, req, last, issued,
                 adminSet, cookie, site, built>>
  /\ UNCHANGED client

\* ------------------------------------------------------------------ specification

\* One step of the request in slot c, or a request arriving there.
Step(c) ==
  \/ List(c)
  \/ CreateBegin(c) \/ CreateWrite(c) \/ CreateAudit(c)
  \/ GetById(c)
  \/ PutBegin(c) \/ PutSlugCheck(c) \/ PutAudit(c)
  \/ DeleteBegin(c) \/ DeleteRead(c) \/ DeleteWrite(c) \/ DeleteAudit(c)
  \/ PublishBegin(c) \/ PublishAudit(c)
  \/ UpdateRead(c) \/ UpdateWrite(c)

\* Requests interleave between their steps.
Next == \E c \in Slots : Step(c)

Spec == Init /\ [][Next]_vars

\* Requests handled one at a time: a request arrives when none is in flight,
\* so only the first slot is ever taken.
SeqNext == Step(1)

SeqSpec == Init /\ [][SeqNext]_vars

\* The admin API handling one request at a time, the build pipeline and the
\* sitemap generator.
SiteNext == Step(1) \/ Build \/ Sitemap

SiteSpec == Init /\ [][SiteNext]_vars

\* The admin API handling one request at a time, with every dispatched
\* rebuild request either worked off by a build or failing.
RebuildNext == Step(1) \/ Build \/ RebuildFails

RebuildSpec == Init /\ [][RebuildNext]_vars

\* The admin API handling one request at a time, list requests with query
\* parameters among them.
ListNext == Step(1) \/ ListFiltered

ListSpec == Init /\ [][ListNext]_vars

\* The login endpoint and the admin API handling one request at a time, while
\* identities are taken out of the admin set.
AuthNext == Step(1) \/ Login \/ RemoveAdmin

AuthSpec == Init /\ [][AuthNext]_vars

\* ------------------------------------------------------------------ validation.ts applied

\* The fields validateLandingPageForm passes to validateRequired, and htmlContent.
RequiredNames ==
  {"businessName", "businessCategory", "businessLocation", "metaTitle",
   "ogTitle", "ogDescription", "htmlContent"}

\* Optional contact fields that pass their checks.
Contact ==
  [ businessPhone   |-> [i \in 1..7 |-> "5"],
    businessEmail   |-> <<"a", "@", "b", ".", "c">>,
    businessWebsite |-> <<"x", ":", "y">> ]

\* Per required field: given with a valid value, given empty, or not given.
Shapes == [RequiredNames -> {"valid", "empty", "missing"}]

\* The form of a shape: BaseBody with the fields marked empty set to "" and
\* those marked missing left out.
FormOf(shape, contact) ==
  LET given == {k \in DOMAIN BaseBody : k \in RequiredNames => shape[k] # "missing"}
      form == [k \in given |->
                 IF k \in RequiredNames /\ shape[k] = "empty" THEN << >> ELSE BaseBody[k]]
  IN  IF contact THEN Merge(Contact, form) ELSE form

Forms == {FormOf(shape, contact) : shape \in Shapes, contact \in BOOLEAN}

\* The characters input strings are made of: a lower-case and an upper-case
\* letter, a digit, the hyphen, the underscore, white space and a special
\* character.
Alphabet == {"a", "A", "0", "-", "_", " ", "!"}

\* n - 1 letters and one more character, around the limit of 50.
Long(n, ch) == [i \in 1..n |-> IF i = n THEN ch ELSE "a"]

Texts ==
  UNION {[1..n -> Alphabet] : n \in 0..MaxLen}
    \cup {Long(n, ch) : n \in {49, 50, 51}, ch \in Alphabet}

Inputs == {[form |-> f] : f \in Forms} \cup {[text |-> t] : t \in Texts}

\* A library function is applied to an input picked beforehand.
LibInit ==
  /\ pages = << >>
  /\ nextId = 1
  /\ now = 1
  /\ audit = << >>
  /\ rebuilds = 0
  /\ req = [c \in Slots |-> NoReq]
  /\ last = [kind |-> "none"]
  /\ issued = 0
  /\ adminSet = Admins
  /\ cookie = NoCookie
  /\ site = {}
  /\ built = 0
  /\ arg \in Inputs
  /\ returned = NoResult
  /\ dash = DashInit
  /\ hook = HookInit

ValidateForm ==
  /\ Has(arg, "form") /\ returned = NoResult
  /\ returned' = [errors |-> validateLandingPageForm(arg.form)]
  /\ UNCHANGED <<pages, nextId, now, audit, rebuilds, req, last, issued,
                 adminSet, cookie, site, built, arg>>
  /\ UNCHANGED client

ValidateSlug ==
  /\ Has(arg, "text") /\ returned = NoResult
  /\ returned' = [error |-> validateSlug(arg.text)]
  /\ UNCHANGED <<pages, nextId, now, audit, rebuilds, req, last, issued,
                 adminSet, cookie, site, built, arg>>
  /\ UNCHANGED client

GenerateSlug ==
  /\ Has(arg, "text") /\ returned = NoResult
  /\ returned' = [slug |-> generateSlug(arg.text)]
  /\ UNCHANGED <<pages, nextId, now, audit, rebuilds, req, last, issued,
                 adminSet, cookie, site, built, arg>>
  /\ UNCHANGED client

LibNext == ValidateForm \/ ValidateSlug \/ GenerateSlug

LibSpec == LibInit /\ [][LibNext]_vars

\* ------------------------------------------------------------------ admin dashboard (page.tsx)

\* What a fetch of the dashboard comes back with: the status of the response,
\* or 0 when fetch rejects (no response).
NoResponse == 0

Responses == {200, 401, 403, 404, 500}

Filters == {"all", "draft", "published"}

\* data.data of a list response: the pages by id with their status; with a
\* status filter, pages of that status.
Listings(filter) ==
  LET all == UNION {[S -> {"draft", "published", "archived"}] : S \in SUBSET PageIds}
  IN  {l \in all : filter # "all" => \A id \in DOMAIN l : l[id] = filter}

\* The dashboard is rendered for a signed-in user; before that the component
\* returns the loading text or redirects.
DashRendered ==
  /\ dash.route = "dashboard"
  /\ ~ hook.loading /\ hook.user # NoUser

\* The useEffect on [loading, user, filter] calls fetchPages: on mount and on
\* every change of the filter.
FetchPages ==
  /\ DashRendered
  /\ \E filter \in Filters, status \in Responses \cup {NoResponse} :
       LET started == [dash EXCEPT !.filter = filter, !.fetchLoading = TRUE, !.error = NoMessage]
           settled(st) == [st EXCEPT !.fetchLoading = FALSE]
       IN  /\ arg' = [call |-> "fetchPages", sent |-> TRUE, status |-> status]
           /\ IF status = NoResponse
                THEN dash' = settled([started EXCEPT !.error = "Failed to fetch"])
              ELSE IF status = 401
                THEN dash' = settled([started EXCEPT !.route = "login"])
              ELSE IF status # 200
                THEN dash' = settled([started EXCEPT !.error = "Failed to fetch pages"])
              ELSE \E data \in Listings(filter) :
                     dash' = settled([started EXCEPT !.pages = data])
  /\ UNCHANGED <<pages, nextId, now, audit, rebuilds, req, last, issued,
                 adminSet, cookie, site, built, returned, hook>>

\* confirm(), then DELETE /api/landing-pages/{id}: an alert on every response
\* that is not ok and on a rejected fetch, else the page leaves the list.
HandleDelete ==
  /\ DashRendered
  /\ \E id \in DOMAIN dash.pages, confirmed \in BOOLEAN, status \in Responses \cup {NoResponse} :
       IF ~ confirmed
         THEN /\ arg' = [call |-> "handleDelete", sent |-> FALSE, status |-> NoResponse]
              /\ UNCHANGED dash
         ELSE /\ arg' = [call |-> "handleDelete", sent |-> TRUE, status |-> status]
              /\ IF status = NoResponse
                   THEN dash' = [dash EXCEPT !.alert = "Failed to fetch"]
                 ELSE IF status # 200
                   THEN dash' = [dash EXCEPT !.alert = "Failed to delete page"]
                 ELSE dash' = [dash EXCEPT
                                 !.pages = [p \in (DOMAIN dash.pages) \ {id} |-> dash.pages[p]]]
  /\ UNCHANGED <<pages, nextId, now, audit, rebuilds, req, last, issued,
                 adminSet, cookie, site, built, returned, hook>>

\* POST /api/landing-pages/{id}/publish with publish: status !== 'published';
\* an alert on every response that is not ok and on a rejected fetch, else the
\* status in the list is switched.
HandlePublishToggle ==
  /\ DashRendered
  /\ \E id \in DOMAIN dash.pages, status \in Responses \cup {NoResponse} :
       /\ arg' = [call |-> "handlePublishToggle", sent |-> TRUE, status |-> status]
       /\ IF status = NoResponse
            THEN dash' = [dash EXCEPT !.alert = "Failed to fetch"]
          ELSE IF status # 200
            THEN dash' = [dash EXCEPT !.alert = "Failed to update page status"]
          ELSE dash' = [dash EXCEPT
                          !.pages[id] = IF @ = "published" THEN "draft" ELSE "published"]
  /\ UNCHANGED <<pages, nextId, now, audit, rebuilds, req, last, issued,
                 adminSet, cookie, site, built, returned, hook>>

\* The dashboard of an admin whom the hook has accepted.
DashInitState ==
  /\ pages = << >>
  /\ nextId = 1
  /\ now = 1
  /\ audit = << >>
  /\ rebuilds = 0
  /\ req = [c \in Slots |-> NoReq]
  /\ last = [kind |-> "none"]
  /\ issued = 0
  /\ adminSet = Admins
  /\ cookie \in Admins
  /\ site = {}
  /\ built = 0
  /\ arg = NoArg
  /\ returned = NoResult
  /\ dash = DashInit
  /\ hook = [HookInit EXCEPT !.user = cookie, !.currentUser = cookie,
                             !.isAdmin = TRUE, !.loading = FALSE]

DashNext == FetchPages \/ HandleDelete \/ HandlePublishToggle

DashSpec == DashInitState /\ [][DashNext]_vars

\* ------------------------------------------------------------------ auth hook (useAuth.ts)

\* Auth-state events delivered to the listener in one behaviour.
MaxEvents == 3

\* The hook once the listener's synchronous branch for a null user has run
\* as event n: setUser(null), setIsAdmin(false), finally setLoading(false).
SignedOutEvent(h, n) ==
  [h EXCEPT !.user = NoUser, !.isAdmin = FALSE, !.loading = FALSE,
            !.currentUser = NoUser, !.events = n,
            !.recent = [identity |-> NoUser, login |-> "none"]]

\* The auth SDK calls the listener: at subscription with whoever is signed in,
\* later whenever another user signs in or the user signs out.  With a user
\* the callback goes on to getIdToken() and the fetch of /api/auth/login and
\* is suspended there; without one it sets user null and isAdmin false.
AuthStateChanged ==
  /\ hook.events < MaxEvents
  /\ \E firebaseUser \in Callers \cup {NoUser} :
       /\ hook.events > 0 => firebaseUser # hook.currentUser
       /\ IF firebaseUser = NoUser
            THEN hook' = SignedOutEvent(hook, hook.events + 1)
            ELSE hook' = [hook EXCEPT
                            !.currentUser = firebaseUser,
                            !.events = @ + 1,
                            !.running = @ \cup {[identity |-> firebaseUser, event |-> hook.events + 1]},
                            !.recent = [identity |-> firebaseUser, login |-> "pending"]]
  /\ UNCHANGED <<pages, nextId, now, audit, rebuilds, req, last, issued,
                 adminSet, cookie, site, built, arg, returned, dash>>

\* What the login call of a callback came to, noted when the callback belongs
\* to the most recent event.
Noted(h, cb, outcome) ==
  IF cb.event = h.events THEN [h EXCEPT !.recent.login = outcome] ELSE h

\* The fetch of /api/auth/login settles for a suspended callback.  response.ok:
\* setUser, setIsAdmin(true), setError(null).  Any other response:
\* firebaseSignOut (whose null event the listener handles), setUser(null),
\* setIsAdmin(false), the error.  A rejected fetch: the catch sets the error
\* and nothing else.  Then setLoading(false).
LoginReturns ==
  /\ \E cb \in hook.running, network \in {"up", "down"} :
       LET left == [hook EXCEPT !.running = @ \ {cb}, !.loading = FALSE]
           verified == verifyAdminToken([type |-> "string", text |-> cb.identity])
       IN  IF network = "down"
             THEN /\ hook' = Noted([left EXCEPT !.error = "Authentication error"], cb, "threw")
                  /\ UNCHANGED cookie
           ELSE IF verified \in {Rejects, NoAdmin}
             THEN /\ hook' = [(IF left.currentUser = NoUser
                                 THEN Noted(left, cb, "refused")
                                 ELSE SignedOutEvent(Noted(left, cb, "refused"), left.events + 1))
                               EXCEPT !.user = NoUser, !.isAdmin = FALSE,
                                      !.error = "You do not have admin access"]
                  /\ UNCHANGED cookie
           ELSE /\ hook' = Noted([left EXCEPT !.user = cb.identity, !.isAdmin = TRUE,
                                              !.error = NoMessage], cb, "ok")
                /\ cookie' = cb.identity
  /\ UNCHANGED <<pages, nextId, now, audit, rebuilds, req, last, issued,
                 adminSet, site, built, arg, returned, dash>>

\* logout(): the fetch of /api/auth/logout clears the cookie, firebaseSignOut
\* (whose null event the listener handles), setUser(null), setIsAdmin(false),
\* router.push('/admin/login').  A rejected fetch: the error is set and
\* rethrown before anything else happens.
Logout ==
  /\ hook.user # NoUser
  /\ hook.events < MaxEvents
  /\ \E network \in {"up", "down"} :
       IF network = "down"
         THEN /\ hook' = [hook EXCEPT !.error = "Logout failed", !.loading = FALSE]
              /\ UNCHANGED <<cookie, dash>>
         ELSE /\ hook' = [(IF hook.currentUser = NoUser
                             THEN hook
                             ELSE SignedOutEvent(hook, hook.events + 1))
                           EXCEPT !.user = NoUser, !.isAdmin = FALSE,
                                  !.error = NoMessage, !.loading = FALSE]
              /\ cookie' = NoCookie
              /\ dash' = [dash EXCEPT !.route = "login"]
  /\ UNCHANGED <<pages, nextId, now, audit, rebuilds, req, last, issued,
                 adminSet, site, built, arg, returned>>

HookNext == AuthStateChanged \/ LoginReturns \/ Logout

HookSpec == Init /\ [][HookNext]_vars

\* ------------------------------------------------------------------ properties

Answered == last.kind # "none"

\* The step answers a request: one answered as it arrives, or one in flight.
Answers ==
  \/ issued' # issued /\ req' = req
  \/ \E c \in Slots : ~ Idle(c) /\ Idle(c)'

Succeeded(r) == r.resp \in {200, 201}

\* C1: every stored page record has publishedAt non-null if and only if its
\* status is published.  Violated: a PUT whose body carries no status field
\* clears publishedAt of a published record and leaves its status published.
C1_PublishedAtIffPublished ==
  \A id \in DOMAIN pages :
    (pages[id].publishedAt # Null) <=> (Status(pages[id]) = "published")

\* C2: every stored page record has isPublished equal to (status == published).
\* Violated by the same PUT: isPublished is recomputed from the body's status
\* field also when the body has none.
C2_IsPublishedDerived ==
  \A id \in DOMAIN pages :
    pages[id].isPublished = (Status(pages[id]) = "published")

\* C3: createdAt and createdBy of a record are those written by create for as
\* long as the record is stored: no step changes them.  Violated: a PUT body
\* that carries createdAt or createdBy is spread into the update.
C3_CreationMetadataKept ==
  [][\A id \in (DOMAIN pages) \cap (DOMAIN pages') :
       /\ pages'[id].createdAt = pages[id].createdAt
       /\ pages'[id].createdBy = pages[id].createdBy]_vars

\* C4: on each of the six admin endpoints, a request whose session check yields
\* no admin is answered 401, and by then it has read and written nothing of the
\* page collection, called no validator, written no audit entry and invoked no
\* rebuild; the step that answers it leaves the store, the audit log and the
\* rebuild trigger alone.
C4_UnauthenticatedTouchesNothing ==
  [][(Answers /\ ~ last'.authed) =>
       /\ last'.resp = 401
       /\ last'.ops = NoOps
       /\ pages' = pages /\ audit' = audit /\ rebuilds' = rebuilds]_vars

C4_Witness ==
  /\ Answered /\ ~ last.authed /\ last.kind = "publish" /\ last.resp = 401
  /\ pages # << >>

\* C5: a publish-toggle whose target status (published for publish=true, draft
\* for publish=false) is the record's current status changes nothing: it is
\* answered by the step that loads the record, with 200 and that status, has
\* written nothing, and the stored record, the audit log and the rebuild count
\* stay as they were; it never goes on to updateLandingPage.
C5_ToggleToCurrentStatusIsNoOp ==
  [][/\ \A c \in Slots :
          (Idle(c) /\ req'[c].kind = "publish")
          => Status(pages[req'[c].id]) # NewStatus(req'[c].body.publish)
     /\ ( /\ Answers /\ last'.kind = "publish" /\ last'.authed
          /\ last'.ops.reads = 1
          /\ last'.current # NoStatus /\ last'.current = last'.target )
        => /\ pages' = pages /\ audit' = audit /\ rebuilds' = rebuilds
           /\ last'.resp = 200
           /\ last'.shown = last'.current
           /\ last'.ops.writes = 0 /\ last'.ops.audits = 0
           /\ last'.ops.rebuilds = 0]_vars

C5_Witness ==
  /\ Answered /\ last.kind = "publish" /\ last.note = "already" /\ last.shown = "published"
  /\ \E id \in DOMAIN pages : Status(pages[id]) = "published" /\ pages[id].publishedAt # Null

\* C6: when requests are handled one at a time, no two stored page records
\* have the same slug.
C6_SlugsUniqueSequentially ==
  \A i, j \in DOMAIN pages : i # j => pages[i].slug # pages[j].slug

C6_Witness ==
  /\ Cardinality(DOMAIN pages) = 2
  /\ Answered /\ last.kind = "put" /\ last.resp = 400 /\ last.note = "slug taken"

C8_StatusChangeTriggersRebuild ==
  (Answered /\ Succeeded(last) /\ last.ops.flips > 0) => last.ops.rebuilds > 0

\* The tag of the audit entry of an answered request.
AuditTag(r) ==
  CASE r.kind = "create" -> "page_created"
    [] r.kind = "put" -> "page_updated"
    [] r.kind = "delete" -> "page_deleted"
    [] r.kind = "publish" /\ r.shown = "published" -> "page_published"
    [] r.kind = "publish" /\ r.shown # "published" -> "page_unpublished"
    [] OTHER -> "none"

C10_ListPublishedIsExact ==
  LET result == getPublishedLandingPages(pages)
  IN  /\ {result[n].id : n \in DOMAIN result}
           = {i \in DOMAIN pages : Status(pages[i]) = "published"}
      /\ \A n \in DOMAIN result : Status(result[n]) = "published"
      /\ \A m, n \in DOMAIN result : result[m].id = result[n].id => m = n

\* Right after an unpublish: the unpublished record is a draft and is not listed.
C10_Witness ==
  /\ Answered /\ last.kind = "publish" /\ last.note = "toggled" /\ last.shown = "draft"
  /\ \E i, j \in DOMAIN pages :
       /\ Status(pages[i]) = "draft" /\ Status(pages[j]) = "published"
       /\ Len(getPublishedLandingPages(pages)) = 1

\* C11: every slug the static site serves is the slug of a stored record whose
\* status is published now.  Violated: the pages of the last completed build
\* stay served after the record is unpublished, updated to another status or
\* deleted, until a later build completes; PUT and DELETE dispatch no rebuild.
C11_SiteServesOnlyPublished ==
  \A slug \in site :
    \E id \in DOMAIN pages : pages[id].slug = slug /\ Status(pages[id]) = "published"

\* C16: a sitemap generated while the store cannot be read has exactly the URLs
\* of the static entries of the successful path.  Violated: the catch branch
\* returns the site root alone.
C16_FallbackIsStaticEntries ==
  (Has(arg, "reachable") /\ ~ arg.reachable)
  => {returned.entries[n].url : n \in DOMAIN returned.entries}
       = {staticPages(now)[n].url : n \in DOMAIN staticPages(now)}

\* The step answers a login request.
LoginStep == issued' # issued /\ req' = req /\ last'.kind = "login"

AdminEndpoints == {"list", "create", "get", "put", "delete", "publish"}

\* C12: once the admin has been taken out of the admin set, every request that
\* arrives at an admin endpoint, whatever session it carries, is answered 401
\* by the step it arrives with, having read and written nothing; the store,
\* the audit log and the rebuild trigger stay as they were.
C12_RemovedAdminIsUnauthenticated ==
  [][(adminSet = {} /\ issued' # issued /\ ~ LoginStep)
       => /\ req' = req
          /\ last'.kind \in AdminEndpoints
          /\ last'.resp = 401 /\ last'.ops = NoOps
          /\ pages' = pages /\ audit' = audit /\ rebuilds' = rebuilds]_vars

\* The admin logged in and created a page, was removed with the cookie still
\* set, and a request that arrived after the removal has been answered 401.
C12_Witness ==
  /\ cookie = "alice" /\ adminSet = {} /\ pages # << >>
  /\ Has(arg, "removed") /\ arg.removed = "alice" /\ issued > arg.at
  /\ last.kind \in AdminEndpoints /\ last.resp = 401

\* C13: the login endpoint sets the cookie only for a token that is verified
\* and whose subject is in the admin set; a missing, empty or non-string token
\* is answered 400, a verified token of a non-admin 403, and an invalid token
\* neither 403 nor 200, each without a change of the cookie.
C13_CookieOnlyForVerifiedAdmin ==
  [][/\ cookie' # cookie
          => /\ LoginStep /\ last'.resp = 200
             /\ arg'.token.type = "string"
             /\ arg'.token.text \in Callers \cap adminSet
             /\ cookie' = arg'.token.text
     /\ LoginStep
          => LET token == arg'.token
                 isString == token.type = "string"
             IN  /\ (~ isString \/ token.text = "")
                      => (last'.resp = 400 /\ cookie' = cookie)
                 /\ (isString /\ token.text \in Callers \ adminSet)
                      => (last'.resp = 403 /\ cookie' = cookie)
                 /\ (isString /\ token.text # "" /\ token.text \notin Callers)
                      => (last'.resp \notin {200, 403} /\ cookie' = cookie)]_vars

\* The admin's login has set the cookie, and a later login with the verified
\* token of a non-admin has been answered 403.
C13_Witness ==
  /\ cookie = "alice"
  /\ last.kind = "login" /\ last.resp = 403
  /\ Has(arg, "token") /\ arg.token = [type |-> "string", text |-> "eve"]

\* C14: every stored page record has a status that is one of draft,
\* published, archived.  Violated: a create whose body has no status field
\* stores a record without one, and no handler checks the value of status.
C14_StatusIsLifecycleValue ==
  \A id \in DOMAIN pages : Status(pages[id]) \in {"draft", "published", "archived"}

\* C15: the record that a create request whose body does not say status
\* published adds to the store has status draft, isPublished false and
\* publishedAt null.  Violated: createLandingPage spreads the body and adds no
\* status, so the record of a body without status has none.
C15_CreateDefaultsToDraft ==
  [][\A c \in Slots :
       ( /\ req[c].kind = "create" /\ req[c].pc = "write" /\ req'[c].pc = "audit"
         /\ Status(req[c].body) # "published" )
       => LET doc == pages'[req'[c].id]
          IN  /\ Status(doc) = "draft"
              /\ ~ doc.isPublished
              /\ doc.publishedAt = Null]_vars

\* C17: a DELETE request is answered with success, 401 or 404 (the 500 of the
\* handler's catch left aside), also when two DELETE requests for one id
\* interleave.  Violated: of two interleaved DELETE
\* requests for one id, the one whose deleteLandingPage reads after the
\* other's delete() is answered 400.
C17_DeleteAnswers200Or401Or404 ==
  (Answered /\ last.kind = "delete") => last.resp \in {200, 401, 404, 500}

\* C18: validateLandingPageForm, applied to a form in which some of business
\* name, category, location, metaTitle, ogTitle, ogDescription and html body
\* are missing or empty and every other field is valid, returns a mapping
\* whose keys are exactly those fields; applied to a form in which every field
\* is valid, the empty mapping.
C18_ErrorsKeyedByMissingFields ==
  Has(returned, "errors")
    => DOMAIN returned.errors = {k \in RequiredNames : Field(arg.form, k) = << >>}

\* One field left out and one given empty, reported as exactly those two.
C18_Witness ==
  /\ Has(returned, "errors")
  /\ ~ Has(arg.form, "businessName")
  /\ Has(arg.form, "htmlContent") /\ arg.form.htmlContent = << >>
  /\ DOMAIN returned.errors = {"businessName", "htmlContent"}

\* The slugs of the pattern ^[a-z0-9-]{2,50}$ that neither start nor end with
\* a hyphen.
WellFormedSlug(s) ==
  /\ Len(s) >= 2 /\ Len(s) <= 50
  /\ \A i \in 1..Len(s) : s[i] \in Letters \cup Digits \cup {"-"}
  /\ s[1] # "-" /\ s[Len(s)] # "-"

\* C19: validateSlug(s) returns no error if and only if s has between 2 and
\* 50 characters, all of them a-z, 0-9 or hyphen, and neither starts nor ends
\* with a hyphen.
C19_ValidateSlugMatchesPattern ==
  Has(returned, "error") => (returned.error = NoError <=> WellFormedSlug(arg.text))

\* A slug of 51 characters is refused, having been applied to validateSlug.
C19_Witness ==
  /\ Has(returned, "error") /\ returned.error # NoError
  /\ arg.text = Long(51, "a")

\* C20: generateSlug applied to its own output returns that output.
C20_GenerateSlugIdempotent ==
  Has(returned, "slug") => generateSlug(returned.slug) = returned.slug

\* A title that every step of generateSlug changes.
C20_Witness ==
  /\ Has(returned, "slug")
  /\ arg.text = <<"A", " ", "!">>
  /\ returned.slug = <<"a">>

\* C21: a 401 response to a request of the dashboard (the fetch of the page
\* list, a delete, a publish toggle) leaves the browser on the login page.
\* Violated: handleDelete and handlePublishToggle treat a 401 like every other
\* response that is not ok and show an alert; only fetchPages redirects.
C21_Every401RedirectsToLogin ==
  (Has(arg, "call") /\ arg.status = 401) => dash.route = "login"

\* The step is the store write of the update in slot c.
UpdateWrites(c) ==
  /\ req[c].kind \in {"put", "publish"}
  /\ req[c].pc = "write" /\ req'[c].pc = "audit"

\* C22: an update with an explicit status sets publishedAt to the time of the
\* update exactly when the record's status goes from a non-published one to
\* published, to null exactly when it goes from published to a non-published
\* one, and leaves it as it was when the status is published, or is not,
\* before and after.  Violated: updateLandingPage decides by the stored flag
\* isPublished, not by the stored status, and the two differ after a PUT
\* without status.
C22_PublishedAtFollowsStatusTransition ==
  [][\A c \in Slots :
       (UpdateWrites(c) /\ Has(UpdateArg(req[c]), "status"))
       => LET before == pages[req[c].id]
              after == pages'[req[c].id]
              was == Status(before) = "published"
              is == Status(after) = "published"
          IN  /\ (~ was /\ is) => after.publishedAt = after.updatedAt
              /\ (was /\ ~ is) => after.publishedAt = Null
              /\ (was <=> is) => after.publishedAt = before.publishedAt]_vars

C25_RebuildDetachedFromResponse ==
  [][/\ rebuilds' # rebuilds
          => \E c \in Slots :
               /\ req[c].kind = "publish" /\ req[c].pc = "audit"
               /\ req[c].ops.writes = 1 /\ req[c].ops.audits = 0 /\ req[c].ops.rebuilds = 0
               /\ Status(pages[req[c].id]) = NewStatus(req[c].body.publish)
               /\ audit' = Append(audit, audit'[Len(audit')])
               /\ rebuilds' = rebuilds + 1
               /\ Idle(c)' /\ last'.kind = "publish" /\ last'.resp = 200
               /\ last'.ops.audits = 1 /\ last'.ops.rebuilds = 1
               /\ pages' = pages
     /\ built' # built
          => /\ pages' = pages /\ audit' = audit /\ rebuilds' = rebuilds
             /\ last' = last /\ req' = req /\ issued' = issued]_vars

\* The toggle to published was answered 200, its dispatch has failed since, no
\* build has run, and the record is still published.
C25_Witness ==
  /\ Has(arg, "dispatch") /\ arg.dispatch = "failed"
  /\ rebuilds = 1 /\ built = 1 /\ site = {}
  /\ last.kind = "publish" /\ last.resp = 200 /\ last.note = "toggled"
  /\ last.shown = "published"
  /\ \E id \in DOMAIN pages : Status(pages[id]) = "published"

\* status, isPublished and whether publishedAt is set, of a record.
Publication(doc) == <<Status(doc), doc.isPublished, doc.publishedAt # Null>>

\* C26: the write of an update leaves status, isPublished and publishedAt
\* (set or null) of the record as the same update would, run from its start on
\* the record as the store holds it now: updates of one record that interleave
\* leave what they leave when run one after the other, the last writer last.
\* Violated: the write carries what updateLandingPage computed from the
\* document it read, which another update may have replaced since.
C26_InterleavedUpdatesSerialize ==
  [][\A c \in Slots :
       UpdateWrites(c)
       => LET current == getLandingPageById(pages, req[c].id)
              rerun == updateDataOf(UpdateArg(req[c]), current, req[c].admin,
                                    req[c].updateData.updatedAt)
          IN  Publication(pages'[req[c].id]) = Publication(Merge(rerun, pages[req[c].id]))]_vars

\* A record passes the filters of a list request: status and category equal
\* to the ones given, and the search text contained, ignoring case, in its
\* title, slug or business name.
Passes(doc, filters) ==
  /\ Has(filters, "status") => Status(doc) = filters.status
  /\ Has(filters, "category") => Field(doc, "businessCategory") = filters.category
  /\ Has(filters, "search")
       => \E k \in {"title", "slug", "businessName"} :
            Includes(toLowerCase(Field(doc, k)), toLowerCase(filters.search))

\* C27: a list request of an admin with filters is answered 200 with exactly
\* the stored records that pass the filters, ordered by updatedAt descending,
\* and with their number as count, whatever records create has stored.
\* Violated: the stored records have no title (the form has no such field),
\* and the search filter calls toLowerCase() on it.
C27_ListReturnsExactlyTheMatches ==
  [][( /\ issued' # issued /\ req' = req
       /\ last'.kind = "list" /\ last'.authed /\ Has(arg', "query")
       /\ last'.note # "listed" )
     => /\ returned'.resp = 200
        /\ returned'.data
             = ByUpdatedAt(pages, {i \in DOMAIN pages : Passes(pages[i], arg'.query)})
        /\ returned'.count = Len(returned'.data)]_vars

\* C28: a publish toggle writes the audit entry page_unpublished only when its
\* store update took the record out of status published, and page_published
\* only when its store update brought the record into it: the update of a
\* toggle that writes an audit entry has changed whether the record is
\* published.  Violated: publish=false on an archived record makes it a draft
\* and is logged as page_unpublished.
C28_ToggleAuditTagMatchesTransition ==
  [][\A c \in Slots :
       ( /\ req[c].kind = "publish" /\ req[c].pc = "audit" /\ Idle(c)'
         /\ audit' # audit )
       => /\ audit'[Len(audit')].action
               = (IF req[c].body.publish THEN "page_published" ELSE "page_unpublished")
          /\ req[c].ops.flips = 1]_vars

HookSettled == hook.running = {} /\ hook.events > 0

\* C30: once every auth-state event has been handled, isAdmin is true exactly
\* when user is non-null, and isAdmin is true only if the login call for the
\* identity of the most recent event returned an OK response.  Violated: when
\* that call throws, the catch leaves user and isAdmin as an earlier accepted
\* identity set them.
C30_IsAdminReflectsMostRecentLogin ==
  HookSettled =>
    /\ hook.isAdmin <=> hook.user # NoUser
    /\ hook.isAdmin => hook.recent.login = "ok"

====
